---- MODULE Spec2Model ----
(***************************************************************************)
(* near-sdk collections::vec::Vector<T>: a vector stored on the trie, one  *)
(* storage slot per index, with a write-back cache of loads and changes.   *)
(* Element type of the model: T = bool (borsh encodes a bool as one byte,   *)
(* 0 or 1).                                                                *)
(***************************************************************************)
EXTENDS Integers, Sequences, FiniteSets, TLC

\* Stands in for u32::MAX: the largest length and the largest index.
U32_MAX == 3
\* The element type T.
Values == BOOLEAN
Indices == 0..U32_MAX
\* The longest sequence handed to extend.
MaxExtend == 2
Iters == UNION {[1..n -> Values] : n \in 0..MaxExtend}

\* Option<T>: None is the empty sequence, Some(v) the one-element sequence.
None == <<>>
Some(v) == <<v>>
is_none(o) == o = <<>>
is_some(o) == o # <<>>
unwrap(o) == o[1]

NoErr == "none"
ERR_INCONSISTENT_STATE == "inconsistent_state"
ERR_ELEMENT_DESERIALIZATION == "element_deserialization"
ERR_INDEX_OUT_OF_BOUNDS == "index_out_of_bounds"

\* The storage key prefix of the collection (b"v").
prefix == <<118>>

VARIABLES len, cache, storage, alive, last, script, abs

vars == <<len, cache, storage, alive, last, script, abs>>

(***************************************************************************)
(* Host storage: a map from keys (byte strings) to values (byte strings).  *)
(***************************************************************************)
EmptyMap == [k \in {} |-> <<>>]

storage_read(st, key) == IF key \in DOMAIN st THEN Some(st[key]) ELSE None

storage_write(st, key, value) ==
    [k \in (DOMAIN st) \cup {key} |-> IF k = key THEN value ELSE st[k]]

storage_remove(st, key) == [k \in (DOMAIN st) \ {key} |-> st[k]]

(***************************************************************************)
(* Key and element encodings.                                              *)
(***************************************************************************)
to_le_bytes(index) ==
    << index % 256, (index \div 256) % 256,
       (index \div 65536) % 256, (index \div 16777216) % 256 >>

append_slice(id, extra) == id \o extra

index_to_lookup_key(index) == append_slice(prefix, to_le_bytes(index))

\* borsh of a bool: one byte, 1 for true and 0 for false.
serialize_element(element) == IF element THEN <<1>> ELSE <<0>>

\* Some(value), or None when the bytes are no bool (the caller panics).
try_from_slice(raw) ==
    IF Len(raw) = 1 /\ raw[1] \in {0, 1} THEN Some(raw[1] = 1) ELSE None

\* Vector::deserialize_element: [ok, value]; not ok is the panic.
deserialize_element(raw) ==
    [ok |-> is_some(try_from_slice(raw)),
     value |-> try_from_slice(raw)]

(***************************************************************************)
(* CacheEntry: an optional value and a Cached / Modified flag.             *)
(***************************************************************************)
Cached == "Cached"
Modified == "Modified"

new_cached(value) == [value |-> value, state |-> Cached]
new_modified(value) == [value |-> value, state |-> Modified]
is_modified(entry) == entry.state = Modified
\* replace: the new value, state Modified (the old value is the caller's).
entry_replace(entry, value) == [value |-> value, state |-> Modified]
replace_state(entry, state) == [entry EXCEPT !.state = state]
\* value_mut: hands out the value for writing and marks the entry Modified.
value_mut(entry, value) == [value |-> value, state |-> Modified]

(***************************************************************************)
(* A call in progress: the vector's fields, the storage, the panic raised  *)
(* (if any), the value returned and the storage operations issued.         *)
(***************************************************************************)
Begin(l, c, st) ==
    [len |-> l, cache |-> c, storage |-> st, err |-> NoErr, ret |-> None,
     reads |-> 0, writes |-> 0, removes |-> 0]

panic(s, msg) == [s EXCEPT !.err = msg]

cache_insert(c, index, entry) ==
    [k \in (DOMAIN c) \cup {index} |-> IF k = index THEN entry ELSE c[k]]

is_empty(s) == s.len = 0

\* Vector::new: no elements, an empty cache, no storage access.
new(st) == Begin(0, EmptyMap, st)

\* Vector::clear: one storage removal per index below len, in order.
RECURSIVE clear_loop(_, _)
clear_loop(s, i) ==
    IF i >= s.len THEN s
    ELSE clear_loop([s EXCEPT
                        !.storage = storage_remove(@, index_to_lookup_key(i)),
                        !.removes = @ + 1], i + 1)

\* Mutant of clear: the cache survives the removal of the storage keys.
clear_keep_cache(s) == [clear_loop(s, 0) EXCEPT !.len = 0]

\* Mutant of clear: the storage removals are forgotten.
clear_keep_storage(s) == [s EXCEPT !.len = 0, !.cache = EmptyMap]

clear(s) == [clear_loop(s, 0) EXCEPT !.len = 0, !.cache = EmptyMap]

\* Mutant of flush_entry: the entry is marked Cached and nothing is written.
flush_entry_no_write(s, k) ==
    IF is_modified(s.cache[k])
    THEN [s EXCEPT !.cache[k] = replace_state(@, Cached)]
    ELSE s

\* Mutant of flush_entry: the entry is written and stays Modified.
flush_entry_stay_modified(s, k) ==
    LET v == s.cache[k]
        key == append_slice(prefix, to_le_bytes(k))
    IN  IF is_modified(v)
        THEN IF is_some(v.value)
             THEN [s EXCEPT
                     !.storage = storage_write(@, key, serialize_element(unwrap(v.value))),
                     !.writes = @ + 1]
             ELSE [s EXCEPT
                     !.storage = storage_remove(@, key),
                     !.removes = @ + 1]
        ELSE s

\* Mutant of flush_entry: the entry's state is not looked at.
flush_entry_any_state(s, k) ==
    LET v == s.cache[k]
        key == append_slice(prefix, to_le_bytes(k))
    IN  IF is_some(v.value)
        THEN [s EXCEPT
                !.storage = storage_write(@, key, serialize_element(unwrap(v.value))),
                !.writes = @ + 1,
                !.cache[k] = replace_state(v, Cached)]
        ELSE [s EXCEPT
                !.storage = storage_remove(@, key),
                !.removes = @ + 1,
                !.cache[k] = replace_state(v, Cached)]

\* One step of flush's loop: the entry at key k.
flush_entry(s, k) ==
    LET v == s.cache[k]
        key == append_slice(prefix, to_le_bytes(k))
    IN  IF is_modified(v)
        THEN IF is_some(v.value)
             THEN [s EXCEPT
                     !.storage = storage_write(@, key, serialize_element(unwrap(v.value))),
                     !.writes = @ + 1,
                     !.cache[k] = replace_state(v, Cached)]
             ELSE [s EXCEPT
                     !.storage = storage_remove(@, key),
                     !.removes = @ + 1,
                     !.cache[k] = replace_state(v, Cached)]
        ELSE s

\* Vector::flush: the cache's entries in key order.
RECURSIVE flush_loop(_, _)
flush_loop(s, todo) ==
    IF todo = {} THEN s
    ELSE LET k == CHOOSE x \in todo : \A y \in todo : x <= y
         IN  flush_loop(flush_entry(s, k), todo \ {k})

\* Mutant of flush: only the first entry of the cache is flushed.
flush_first_only(s) ==
    IF DOMAIN s.cache = {} THEN s
    ELSE flush_entry(s, CHOOSE x \in DOMAIN s.cache : \A y \in DOMAIN s.cache : x <= y)

flush(s) == flush_loop(s, DOMAIN s.cache)

\* Mutant of set: the value is also written to storage at once.
set_write_through(s, index, value) ==
    IF index >= s.len THEN panic(s, ERR_INDEX_OUT_OF_BOUNDS)
    ELSE [s EXCEPT
            !.cache = cache_insert(@, index, new_modified(Some(value))),
            !.storage = storage_write(@, index_to_lookup_key(index),
                                      serialize_element(value)),
            !.writes = @ + 1]

\* Mutant of set: the bounds check is missing.
set_unchecked(s, index, value) ==
    IF index \in DOMAIN s.cache
    THEN [s EXCEPT !.cache[index] = entry_replace(@, Some(value))]
    ELSE [s EXCEPT !.cache = cache_insert(@, index, new_modified(Some(value)))]

\* Mutant of set: an entry already in the cache is left as it is.
set_keep_occupied(s, index, value) ==
    IF index >= s.len THEN panic(s, ERR_INDEX_OUT_OF_BOUNDS)
    ELSE IF index \in DOMAIN s.cache
         THEN s
         ELSE [s EXCEPT !.cache = cache_insert(@, index, new_modified(Some(value)))]

\* Vector::set
set(s, index, value) ==
    IF index >= s.len THEN panic(s, ERR_INDEX_OUT_OF_BOUNDS)
    ELSE IF index \in DOMAIN s.cache
         THEN [s EXCEPT !.cache[index] = entry_replace(@, Some(value))]
         ELSE [s EXCEPT !.cache = cache_insert(@, index, new_modified(Some(value)))]

\* Mutant of push: no limit check, the u32 length wraps around.
push_wrapping(s, element) ==
    LET last_idx == s.len
    IN  set([s EXCEPT !.len = (@ + 1) % (U32_MAX + 1)], last_idx, element)

\* Vector::push
push(s, element) ==
    IF s.len >= U32_MAX THEN panic(s, ERR_INDEX_OUT_OF_BOUNDS)
    ELSE LET last_idx == s.len
         IN  set([s EXCEPT !.len = @ + 1], last_idx, element)

\* Vector::extend: push of each element, in order; a panic ends it.
RECURSIVE extend(_, _)
extend(s, iter) ==
    IF iter = <<>> THEN s
    ELSE LET s1 == push(s, Head(iter))
         IN  IF s1.err # NoErr THEN s1 ELSE extend(s1, Tail(iter))

\* Mutant of load: storage is read and the entry replaced also on a hit.
load_always_read(s, index) ==
    LET raw == storage_read(s.storage, index_to_lookup_key(index))
        s1 == [s EXCEPT !.reads = @ + 1]
    IN  IF is_none(raw)
        THEN [s1 EXCEPT !.cache = cache_insert(@, index, new_cached(None))]
        ELSE IF ~deserialize_element(unwrap(raw)).ok
             THEN panic(s1, ERR_ELEMENT_DESERIALIZATION)
             ELSE [s1 EXCEPT !.cache =
                     cache_insert(@, index,
                                  new_cached(deserialize_element(unwrap(raw)).value))]

\* Vector::load: the entry is s.cache[index] afterwards, unless it panicked.
load(s, index) ==
    IF index \in DOMAIN s.cache THEN s
    ELSE LET raw == storage_read(s.storage, index_to_lookup_key(index))
             s1 == [s EXCEPT !.reads = @ + 1]
         IN  IF is_none(raw)
             THEN [s1 EXCEPT !.cache = cache_insert(@, index, new_cached(None))]
             ELSE IF ~deserialize_element(unwrap(raw)).ok
                  THEN panic(s1, ERR_ELEMENT_DESERIALIZATION)
                  ELSE [s1 EXCEPT !.cache =
                          cache_insert(@, index,
                                       new_cached(deserialize_element(unwrap(raw)).value))]

load_mut(s, index) == load(s, index)

\* Vector::get
get(s, index) ==
    LET s1 == load(s, index)
    IN  IF s1.err # NoErr THEN s1
        ELSE [s1 EXCEPT !.ret = s1.cache[index].value]

\* Mutant of swap: equal indices are not told apart, the entry is touched.
swap_same_touched(s, a, b) ==
    IF a >= s.len \/ b >= s.len THEN panic(s, ERR_INDEX_OUT_OF_BOUNDS)
    ELSE LET s1 == load(s, a)
             s2 == IF s1.err # NoErr THEN s1 ELSE load(s1, b)
         IN  IF s2.err # NoErr THEN s2
             ELSE IF is_none(s2.cache[a].value) \/ is_none(s2.cache[b].value)
                  THEN panic(s2, ERR_INCONSISTENT_STATE)
                  ELSE [s2 EXCEPT
                          !.cache[a] = value_mut(@, s2.cache[b].value),
                          !.cache[b] = value_mut(@, s2.cache[a].value)]

\* Mutant of swap: a receives b's value and b keeps its own.
swap_one_way(s, a, b) ==
    IF a >= s.len \/ b >= s.len THEN panic(s, ERR_INDEX_OUT_OF_BOUNDS)
    ELSE IF a = b THEN s
    ELSE LET s1 == load(s, a)
             s2 == IF s1.err # NoErr THEN s1 ELSE load(s1, b)
         IN  IF s2.err # NoErr THEN s2
             ELSE IF is_none(s2.cache[a].value) \/ is_none(s2.cache[b].value)
                  THEN panic(s2, ERR_INCONSISTENT_STATE)
                  ELSE [s2 EXCEPT
                          !.cache[a] = value_mut(@, s2.cache[b].value),
                          !.cache[b] = value_mut(@, s2.cache[b].value)]

\* Vector::swap
swap(s, a, b) ==
    IF a >= s.len \/ b >= s.len THEN panic(s, ERR_INDEX_OUT_OF_BOUNDS)
    ELSE IF a = b THEN s
    ELSE LET s1 == load(s, a)
             s2 == IF s1.err # NoErr THEN s1 ELSE load(s1, b)
         IN  IF s2.err # NoErr THEN s2
             ELSE IF is_none(s2.cache[a].value) \/ is_none(s2.cache[b].value)
                  THEN panic(s2, ERR_INCONSISTENT_STATE)
                  ELSE [s2 EXCEPT
                          !.cache[a] = value_mut(@, s2.cache[b].value),
                          !.cache[b] = value_mut(@, s2.cache[a].value)]

\* Mutant of pop: the length is not decremented.
pop_keep_len(s) ==
    IF is_empty(s) THEN [s EXCEPT !.ret = None]
    ELSE LET last_idx == s.len - 1
             s1 == load_mut(s, last_idx)
         IN  IF s1.err # NoErr THEN s1
             ELSE LET old == s1.cache[last_idx].value
                      s2 == [s1 EXCEPT !.cache[last_idx] = entry_replace(@, None)]
                  IN  IF is_none(old) THEN panic(s2, ERR_INCONSISTENT_STATE)
                      ELSE [s2 EXCEPT !.ret = old]

\* Mutant of pop: the element is returned and its cache entry left as it was.
pop_leave_entry(s) ==
    IF is_empty(s) THEN [s EXCEPT !.ret = None]
    ELSE LET last_idx == s.len - 1
             s1 == load_mut([s EXCEPT !.len = last_idx], last_idx)
         IN  IF s1.err # NoErr THEN s1
             ELSE LET old == s1.cache[last_idx].value
                  IN  IF is_none(old) THEN panic(s1, ERR_INCONSISTENT_STATE)
                      ELSE [s1 EXCEPT !.ret = old]

\* Mutant of pop: the emptied entry is left Cached, as if storage agreed.
pop_not_modified(s) ==
    IF is_empty(s) THEN [s EXCEPT !.ret = None]
    ELSE LET last_idx == s.len - 1
             s1 == load_mut([s EXCEPT !.len = last_idx], last_idx)
         IN  IF s1.err # NoErr THEN s1
             ELSE LET old == s1.cache[last_idx].value
                      s2 == [s1 EXCEPT !.cache[last_idx] = new_cached(None)]
                  IN  IF is_none(old) THEN panic(s2, ERR_INCONSISTENT_STATE)
                      ELSE [s2 EXCEPT !.ret = old]

\* Vector::pop
pop(s) ==
    IF is_empty(s) THEN [s EXCEPT !.ret = None]
    ELSE LET last_idx == s.len - 1
             s1 == load_mut([s EXCEPT !.len = last_idx], last_idx)
         IN  IF s1.err # NoErr THEN s1
             ELSE LET old == s1.cache[last_idx].value
                      s2 == [s1 EXCEPT !.cache[last_idx] = entry_replace(@, None)]
                  IN  IF is_none(old) THEN panic(s2, ERR_INCONSISTENT_STATE)
                      ELSE [s2 EXCEPT !.ret = old]

\* Mutant of swap_remove: the last element is removed, whatever the index.
swap_remove_last(s, index) ==
    IF is_empty(s) THEN panic(s, ERR_INDEX_OUT_OF_BOUNDS)
    ELSE IF index >= s.len THEN panic(s, ERR_INDEX_OUT_OF_BOUNDS)
    ELSE LET s2 == pop(s)
         IN  IF s2.err # NoErr THEN s2
             ELSE IF is_none(s2.ret) THEN panic(s2, ERR_INCONSISTENT_STATE)
             ELSE s2

\* Vector::swap_remove
swap_remove(s, index) ==
    IF is_empty(s) THEN panic(s, ERR_INDEX_OUT_OF_BOUNDS)
    ELSE LET s1 == swap(s, index, s.len - 1)
         IN  IF s1.err # NoErr THEN s1
             ELSE LET s2 == pop(s1)
                  IN  IF s2.err # NoErr THEN s2
                      ELSE IF is_none(s2.ret) THEN panic(s2, ERR_INCONSISTENT_STATE)
                      ELSE s2

(***************************************************************************)
(* The collection in use: one instance at a time over the storage.         *)
(*   len, cache  the instance's fields (len is also the persisted length   *)
(*               once the instance is dropped)                             *)
(*   storage     the host's key-value storage                              *)
(*   alive       whether an instance exists                                *)
(*   last        the last call: its name, the panic it raised (if any),    *)
(*               the length before it and the storage operations it issued *)
(*   script      the values pushed so far, while the instance's history is *)
(*               new over empty storage, pushes only, then one flush       *)
(*   abs         the sequence of elements the calls made so far describe:  *)
(*               what a plain growable array would hold after them         *)
(***************************************************************************)
Cur == Begin(len, cache, storage)

Call(op, n, r) ==
    [op |-> op, err |-> r.err, n |-> n,
     reads |-> r.reads, writes |-> r.writes, removes |-> r.removes]

ScriptOff == [on |-> FALSE, vals |-> <<>>, flushed |-> FALSE]

ScriptNext(op, a, r) ==
    IF op = "new" /\ r.storage = EmptyMap
    THEN [on |-> TRUE, vals |-> <<>>, flushed |-> FALSE]
    ELSE IF op = "push" /\ r.err = NoErr /\ script.on /\ ~script.flushed
    THEN [script EXCEPT !.vals = Append(@, a)]
    ELSE IF op = "flush" /\ script.on /\ ~script.flushed
    THEN [script EXCEPT !.flushed = TRUE]
    ELSE ScriptOff

Commit(op, a, r) ==
    /\ len' = r.len
    /\ cache' = r.cache
    /\ storage' = r.storage
    /\ last' = Call(op, len, r)
    /\ script' = ScriptNext(op, a, r)

\* The calls on a plain sequence q of at most U32_MAX elements (positions
\* from 1); a call that is refused leaves q as it is.
AbsSet(q, index, value) ==
    IF index < Len(q) THEN [q EXCEPT ![index + 1] = value] ELSE q

AbsPush(q, element) == IF Len(q) < U32_MAX THEN Append(q, element) ELSE q

RECURSIVE AbsExtend(_, _)
AbsExtend(q, iter) ==
    IF iter = <<>> THEN q ELSE AbsExtend(AbsPush(q, Head(iter)), Tail(iter))

AbsPop(q) == IF q = <<>> THEN q ELSE SubSeq(q, 1, Len(q) - 1)

AbsSwap(q, a, b) ==
    IF a < Len(q) /\ b < Len(q)
    THEN [q EXCEPT ![a + 1] = q[b + 1], ![b + 1] = q[a + 1]]
    ELSE q

AbsSwapRemove(q, index) ==
    IF index < Len(q) THEN AbsPop(AbsSwap(q, index, Len(q) - 1)) ELSE q

\* A panic aborts the invocation: nothing more is called on the instance.
Running == alive /\ last.err = NoErr

Init ==
    /\ len = 0
    /\ cache = EmptyMap
    /\ storage = EmptyMap
    /\ alive = TRUE
    /\ last = Call("new", 0, new(EmptyMap))
    /\ script = [on |-> TRUE, vals |-> <<>>, flushed |-> FALSE]
    /\ abs = <<>>

Get ==
    /\ Running
    /\ \E index \in Indices : Commit("get", index, get(Cur, index))
    /\ UNCHANGED <<alive, abs>>

Set ==
    /\ Running
    /\ \E index \in Indices, value \in Values :
          /\ Commit("set", index, set(Cur, index, value))
          /\ abs' = AbsSet(abs, index, value)
    /\ UNCHANGED alive

Push ==
    /\ Running
    /\ \E element \in Values :
          /\ Commit("push", element, push(Cur, element))
          /\ abs' = AbsPush(abs, element)
    /\ UNCHANGED alive

Extend ==
    /\ Running
    /\ \E iter \in Iters :
          /\ Commit("extend", 0, extend(Cur, iter))
          /\ abs' = AbsExtend(abs, iter)
    /\ UNCHANGED alive

Pop ==
    /\ Running
    /\ Commit("pop", 0, pop(Cur))
    /\ abs' = AbsPop(abs)
    /\ UNCHANGED alive

Swap ==
    /\ Running
    /\ \E a \in Indices, b \in Indices :
          /\ Commit("swap", a, swap(Cur, a, b))
          /\ abs' = AbsSwap(abs, a, b)
    /\ UNCHANGED alive

SwapRemove ==
    /\ Running
    /\ \E index \in Indices :
          /\ Commit("swap_remove", index, swap_remove(Cur, index))
          /\ abs' = AbsSwapRemove(abs, index)
    /\ UNCHANGED alive

Clear ==
    /\ Running
    /\ Commit("clear", 0, clear(Cur))
    /\ abs' = <<>>
    /\ UNCHANGED alive

Flush ==
    /\ Running
    /\ Commit("flush", 0, flush(Cur))
    /\ UNCHANGED <<alive, abs>>

\* Drop for Vector: flushes the cache.
drop(s) == flush(s)

\* The instance goes out of scope: drop runs, then its memory is freed.
Drop ==
    /\ Running
    /\ Commit("drop", 0, [drop(Cur) EXCEPT !.cache = EmptyMap])
    /\ alive' = FALSE
    /\ UNCHANGED abs

\* Vector::new(prefix) over the storage as it is.
New ==
    /\ ~alive
    /\ Commit("new", 0, new(storage))
    /\ alive' = TRUE
    /\ abs' = <<>>

\* BorshDeserialize of the persisted {len, prefix}: the cache starts empty.
deserialize(l, st) == Begin(l, EmptyMap, st)

Deserialize ==
    /\ ~alive
    /\ Commit("deserialize", 0, deserialize(len, storage))
    /\ alive' = TRUE
    /\ UNCHANGED abs

Next ==
    \/ Get
    \/ Set
    \/ Push
    \/ Extend
    \/ Pop
    \/ Swap
    \/ SwapRemove
    \/ Clear
    \/ Flush
    \/ Drop
    \/ New
    \/ Deserialize

Spec == Init /\ [][Next]_vars

\* Rust drops every value when its scope ends: a running instance is dropped
\* sooner or later. Drop is the one step of Next that ends a running
\* instance and it is enabled whenever the instance runs, so fairness of
\* EndOfScope is weak fairness of Drop.
EndOfScope == Running /\ alive' = FALSE

LiveSpec == Spec /\ WF_alive(EndOfScope)

(***************************************************************************)
(* Properties.  A call's effect is stated on the record the operation      *)
(* returns when applied to the current state: At(r) is the instance that   *)
(* call leaves behind, Fresh(st) a new instance over storage st.           *)
(***************************************************************************)
At(r) == Begin(r.len, r.cache, r.storage)

Fresh(st) == new(st)

ModifiedKeys(c) == {k \in DOMAIN c : is_modified(c[k])}

\* What storage holds for index i once a cache entry with this value is flushed.
Persisted(value) ==
    IF is_some(value) THEN Some(serialize_element(unwrap(value))) ELSE None

\* C1: persistence round trip. Over storage with no keys under the prefix,
\* after new(P), push of A, B, C and flush, a new instance with the same
\* prefix returns A, B, C from get(0), get(1), get(2) and absent from get(3).
C1_RoundTrip ==
    (script.on /\ script.flushed /\ Len(script.vals) = 3) =>
        LET g0 == get(Fresh(storage), 0)
            g1 == get(g0, 1)
            g2 == get(g1, 2)
            g3 == get(g2, 3)
        IN  /\ g0.err = NoErr /\ g0.ret = Some(script.vals[1])
            /\ g1.err = NoErr /\ g1.ret = Some(script.vals[2])
            /\ g2.err = NoErr /\ g2.ret = Some(script.vals[3])
            /\ g3.err = NoErr /\ g3.ret = None

C1_Witness ==
    /\ script.on /\ script.flushed /\ Len(script.vals) = 3
    /\ script.vals[1] # script.vals[2]
    /\ last.op = "flush" /\ last.writes = 3

\* C2: in every reachable state, get(index) for every index >= len()
\* returns absent and never fails.
C2_GetBeyondLenAbsent ==
    Running =>
        \A index \in Indices :
            index >= len =>
                /\ get(Cur, index).err = NoErr
                /\ get(Cur, index).ret = None

\* C3: after clear() on a collection of length n, len() is 0 and a fresh
\* collection with the same prefix has length zero and returns absent from
\* get(i) for every i in [0, n).
C3_ClearThenFresh ==
    (last.op = "clear") =>
        /\ len = 0
        /\ Fresh(storage).len = 0
        /\ \A i \in 0..(last.n - 1) :
              /\ get(Fresh(storage), i).err = NoErr
              /\ get(Fresh(storage), i).ret = None

C3_Witness ==
    /\ last.op = "clear" /\ last.n = 3 /\ last.removes = 3
    /\ storage = EmptyMap

\* C4: after clear() no stale read is possible: for every index i, also one
\* popped earlier with the removal still pending in the cache, get(i) on the
\* same instance and on a fresh instance returns absent; no storage entry
\* under the prefix survives clear.
C4_NoStaleReadAfterClear ==
    (last.op = "clear") =>
        /\ \A i \in Indices : get(Cur, i).ret = None
        /\ \A i \in Indices : get(Fresh(storage), i).ret = None
        /\ \A i \in Indices : index_to_lookup_key(i) \notin DOMAIN storage

\* C5: swap_remove(i) on a collection of length n with i < n returns the
\* element at i, leaves length n-1, places the element previously at n-1 at
\* index i (when i # n-1) and leaves every other index below n-1 unchanged,
\* for any mix of cached, modified and not-yet-loaded entries.
C5_SwapRemove ==
    Running =>
        \A i \in 0..(len - 1) :
            LET r == swap_remove(Cur, i)
                n == len
            IN  /\ r.err = NoErr
                /\ is_some(get(Cur, i).ret)
                /\ r.ret = get(Cur, i).ret
                /\ r.len = n - 1
                /\ (i # n - 1 => get(At(r), i).ret = get(Cur, n - 1).ret)
                /\ \A j \in 0..(n - 2) :
                      j # i => get(At(r), j).ret = get(Cur, j).ret

\* swap_remove(i) with i # n-1 has run on three elements, loading both
\* entries from storage, and index i now holds a value other than its own.
C5_Witness ==
    /\ last.op = "swap_remove" /\ last.err = NoErr
    /\ last.n = 3 /\ len = 2 /\ last.reads = 2
    /\ \E i \in 0..1 :
          /\ i \in DOMAIN cache
          /\ is_modified(cache[i])
          /\ Persisted(cache[i].value) # storage_read(storage, index_to_lookup_key(i))

\* C6: set, swap and swap_remove with an index >= len() (swap_remove on an
\* empty collection included) fail with the out-of-bounds error and change
\* neither len(), the cache nor storage.
C6_OutOfBoundsNoMutation ==
    Running =>
        /\ \A i \in Indices, v \in Values :
              i >= len => set(Cur, i, v) = panic(Cur, ERR_INDEX_OUT_OF_BOUNDS)
        /\ \A a \in Indices, b \in Indices :
              (a >= len \/ b >= len) =>
                  swap(Cur, a, b) = panic(Cur, ERR_INDEX_OUT_OF_BOUNDS)
        /\ \A i \in Indices :
              i >= len => swap_remove(Cur, i) = panic(Cur, ERR_INDEX_OUT_OF_BOUNDS)

C6_Witness ==
    /\ last.op = "swap_remove" /\ last.err = ERR_INDEX_OUT_OF_BOUNDS
    /\ last.n = 2 /\ len = 2
    /\ ModifiedKeys(cache) # {}
    /\ storage # EmptyMap

\* C7: get at the index a value was pushed to (the length before the push)
\* returns the pushed value, before any flush and whatever storage holds at
\* that key; the earlier elements stay as they were, so every value of a
\* sequence of pushes is read back at its index.
C7_PushThenGet ==
    /\ (Running /\ len < U32_MAX) =>
          \A v \in Values :
              LET r == push(Cur, v)
              IN  /\ r.err = NoErr
                  /\ r.storage = storage
                  /\ get(r, len).ret = Some(v)
                  /\ get(r, len).reads = 0
                  /\ \A j \in 0..(len - 1) : get(r, j).ret = get(Cur, j).ret
    /\ (Running /\ script.on /\ ~script.flushed) =>
          \A k \in 1..Len(script.vals) : get(Cur, k - 1).ret = Some(script.vals[k])

\* A push up to the length limit, over a storage key holding another value.
C7_Witness ==
    /\ last.op = "push" /\ last.err = NoErr /\ len = U32_MAX
    /\ is_some(storage_read(storage, index_to_lookup_key(len - 1)))
    /\ storage_read(storage, index_to_lookup_key(len - 1))
          # Persisted(get(Cur, len - 1).ret)

\* C8: len() after a successful push is len() before plus one, after pop on a
\* non-empty collection minus one, after clear zero; get, set, swap and flush
\* never change len().
C8_LenEffects ==
    Running =>
        /\ \A v \in Values :
              len < U32_MAX =>
                  push(Cur, v).err = NoErr /\ push(Cur, v).len = len + 1
        /\ (len > 0 => pop(Cur).len = len - 1)
        /\ clear(Cur).len = 0
        /\ \A i \in Indices : get(Cur, i).len = len
        /\ \A i \in Indices, v \in Values : set(Cur, i, v).len = len
        /\ \A a \in Indices, b \in Indices : swap(Cur, a, b).len = len
        /\ flush(Cur).len = len

C8_Witness ==
    /\ last.op = "pop" /\ last.err = NoErr
    /\ last.n = 3 /\ len = 2

\* C9: flush() is idempotent: a second flush() right after a flush performs
\* no storage write and no storage removal and leaves storage and cache
\* unchanged.
C9_FlushIdempotent ==
    (Running /\ last.op = "flush") =>
        LET r == flush(Cur)
        IN  /\ r.writes = 0
            /\ r.removes = 0
            /\ r.storage = storage
            /\ r.cache = cache

\* The first flush had both a value to write and a key to remove.
C9_Witness ==
    /\ last.op = "flush" /\ last.err = NoErr
    /\ last.writes >= 1 /\ last.removes >= 1

\* C10: no modified entry is lost at end of life. When the collection goes
\* out of scope every entry still Modified is flushed exactly once (one
\* storage write or removal per entry, nothing else touched), storage then
\* holds each such entry's value, and so a collection with unflushed Modified
\* entries eventually has none (unless a panic aborts the invocation).
HasModified == alive /\ ModifiedKeys(cache) # {}

DropFlushesEachOnce ==
    Running =>
        LET r == drop(Cur)
            m == ModifiedKeys(cache)
        IN  /\ r.err = NoErr
            /\ r.writes + r.removes = Cardinality(m)
            /\ r.writes = Cardinality({k \in m : is_some(cache[k].value)})
            /\ ModifiedKeys(r.cache) = {}
            /\ \A k \in m :
                  storage_read(r.storage, index_to_lookup_key(k))
                      = Persisted(cache[k].value)
            /\ \A i \in Indices \ m :
                  storage_read(r.storage, index_to_lookup_key(i))
                      = storage_read(storage, index_to_lookup_key(i))

Stored(st, i) ==
    CHOOSE v \in {None} \cup {Some(x) : x \in Values} :
        Persisted(v) = storage_read(st, index_to_lookup_key(i))

\* C11: pop() on an empty collection returns no value and changes nothing.
\* On a non-empty collection it returns the element at index len-1, read
\* from storage when it is not cached, and leaves the cache entry at the old
\* last index Modified with an absent value. When the value found at the old
\* last index is absent (an instance whose length l does not match what the
\* cache and storage hold) it fails with the inconsistent-state error.
C11_Pop ==
    Running =>
        /\ (len = 0) => (pop(Cur) = Cur /\ pop(Cur).ret = None)
        /\ (len > 0) =>
              LET r == pop(Cur)
                  last_idx == len - 1
                  hit == last_idx \in DOMAIN cache
              IN  /\ r.err = NoErr
                  /\ is_some(r.ret)
                  /\ r.ret = IF hit THEN cache[last_idx].value
                                    ELSE Stored(storage, last_idx)
                  /\ r.reads = IF hit THEN 0 ELSE 1
                  /\ r.len = last_idx
                  /\ DOMAIN r.cache = DOMAIN cache \cup {last_idx}
                  /\ r.cache[last_idx] = [value |-> None, state |-> Modified]
                  /\ \A k \in DOMAIN cache \ {last_idx} : r.cache[k] = cache[k]
                  /\ r.storage = storage
        /\ \A l \in 1..U32_MAX :
              LET s == Begin(l, cache, storage)
                  absent == IF (l - 1) \in DOMAIN cache
                            THEN is_none(cache[l - 1].value)
                            ELSE is_none(Stored(storage, l - 1))
              IN  absent =>
                      /\ pop(s).err = ERR_INCONSISTENT_STATE
                      /\ pop(s).ret = None

\* A pop loaded the last element from storage and left its entry Modified
\* and absent, the stored bytes still in place.
C11_Witness ==
    /\ last.op = "pop" /\ last.err = NoErr /\ last.n >= 2 /\ last.reads = 1
    /\ len \in DOMAIN cache
    /\ cache[len] = [value |-> None, state |-> Modified]
    /\ index_to_lookup_key(len) \in DOMAIN storage

\* C12: push on a collection whose length is the largest u32 fails with the
\* out-of-bounds error and leaves length, cache and storage as they were:
\* the length never wraps. Below the limit push adds one to the length and
\* stores the value, Modified, at the index equal to the old length.
C12_PushAtLimit ==
    Running =>
        \A element \in Values :
            LET r == push(Cur, element)
            IN  /\ r.len >= len /\ r.len <= U32_MAX
                /\ IF len = U32_MAX
                   THEN r = panic(Cur, ERR_INDEX_OUT_OF_BOUNDS)
                   ELSE /\ r.err = NoErr
                        /\ r.len = len + 1
                        /\ DOMAIN r.cache = DOMAIN cache \cup {len}
                        /\ r.cache[len] = [value |-> Some(element),
                                           state |-> Modified]
                        /\ \A k \in DOMAIN cache \ {len} : r.cache[k] = cache[k]
                        /\ get(At(r), len).ret = Some(element)

\* A push was refused at the largest length.
C12_Witness ==
    /\ last.op = "push" /\ last.err = ERR_INDEX_OUT_OF_BOUNDS
    /\ last.n = U32_MAX /\ len = U32_MAX

\* C13: flush turns every Modified entry into a Cached one with exactly one
\* storage operation for it: a write of the encoded value at the entry's key
\* when the value is present, a removal of the key when it is absent. Cached
\* entries cause no storage operation and stay as they are. Several set
\* calls on one index before a flush give one write, of the last value.
C13_FlushPerEntry ==
    Running =>
        LET r == flush(Cur)
            m == ModifiedKeys(cache)
        IN  /\ r.err = NoErr /\ r.len = len /\ r.reads = 0
            /\ DOMAIN r.cache = DOMAIN cache
            /\ \A k \in DOMAIN cache :
                  r.cache[k] = [value |-> cache[k].value, state |-> Cached]
            /\ r.writes = Cardinality({k \in m : is_some(cache[k].value)})
            /\ r.removes = Cardinality({k \in m : is_none(cache[k].value)})
            /\ \A i \in Indices :
                  storage_read(r.storage, index_to_lookup_key(i))
                      = IF i \in m THEN Persisted(cache[i].value)
                        ELSE storage_read(storage, index_to_lookup_key(i))
            /\ DOMAIN r.storage \subseteq
                  DOMAIN storage \cup {index_to_lookup_key(k) : k \in m}
            /\ \A index \in 0..(len - 1), v1 \in Values, v2 \in Values :
                  LET s2 == set(At(set(Cur, index, v1)), index, v2)
                      r2 == flush(At(s2))
                  IN  /\ r2.writes = Cardinality({k \in m \cup {index} :
                                          k = index \/ is_some(cache[k].value)})
                      /\ r2.removes = r.removes
                      /\ storage_read(r2.storage, index_to_lookup_key(index))
                             = Some(serialize_element(v2))

\* A flush wrote two entries, removed one key and passed over a Cached entry.
C13_Witness ==
    /\ last.op = "flush" /\ last.err = NoErr
    /\ last.writes = 2 /\ last.removes = 1
    /\ Cardinality(DOMAIN cache) = 4
    /\ \A k \in DOMAIN cache : cache[k].state = Cached

C15_CachedMatchesStorage ==
    \A k \in DOMAIN cache :
        (cache[k].state = Cached) =>
            /\ Persisted(cache[k].value)
                   = storage_read(storage, index_to_lookup_key(k))
            /\ cache[k].value = Stored(storage, k)

\* After a swap that loaded both entries from storage: the two swapped
\* entries are Modified and differ from storage, a third one is Cached.
C15_Witness ==
    /\ last.op = "swap" /\ last.err = NoErr /\ last.reads = 2
    /\ \E k \in DOMAIN cache :
          cache[k].state = Cached /\ is_some(cache[k].value)
    /\ \E k \in DOMAIN cache :
          /\ cache[k].state = Modified
          /\ Persisted(cache[k].value)
                 # storage_read(storage, index_to_lookup_key(k))

\* C16: starting from new(prefix) over empty storage, after any sequence of
\* completed operations (get at out-of-range indices, pop followed by push
\* and swap_remove among them) every cache entry of an index below len holds
\* a present value: an absent value is cached only for indices >= len. It
\* is checked after every history of the model, those that go on over the
\* storage of an earlier instance included.
C16_NoAbsentBelowLen ==
    Running =>
        /\ \A k \in DOMAIN cache : k < len => is_some(cache[k].value)
        /\ \A k \in DOMAIN cache : is_none(cache[k].value) => k >= len

\* After pop, get beyond the length and push: the index popped holds a value
\* again, and absent values are cached, Modified and Cached, at and above len.
C16_Witness ==
    /\ last.op = "push" /\ last.err = NoErr /\ len >= 1
    /\ \A k \in 0..(len - 1) : k \in DOMAIN cache
    /\ \E k \in DOMAIN cache :
          k >= len /\ cache[k] = [value |-> None, state |-> Modified]
    /\ \E k \in DOMAIN cache :
          k >= len /\ cache[k] = [value |-> None, state |-> Cached]

\* A call that issued no storage write and no removal and left storage as
\* it was.
NoStorageChange(r) ==
    r.writes = 0 /\ r.removes = 0 /\ r.storage = storage

DeferredWrites ==
    Running =>
        /\ \A index \in Indices, value \in Values :
              NoStorageChange(set(Cur, index, value))
              /\ set(Cur, index, value).reads = 0
        /\ \A element \in Values :
              NoStorageChange(push(Cur, element))
              /\ push(Cur, element).reads = 0
        /\ \A iter \in Iters :
              NoStorageChange(extend(Cur, iter))
              /\ extend(Cur, iter).reads = 0
        /\ NoStorageChange(pop(Cur))
        /\ \A a \in Indices, b \in Indices : NoStorageChange(swap(Cur, a, b))
        /\ \A index \in Indices : NoStorageChange(swap_remove(Cur, index))

\* C17: writes are deferred. set, push, extend, pop, swap and swap_remove
\* never issue a storage write or removal (set and push touch storage not at
\* all, not even to read), and the contents of storage change only inside
\* flush (called directly or by drop at the end of scope) and clear.
C17_WritesDeferred ==
    /\ []DeferredWrites
    /\ [][storage' # storage => last'.op \in {"flush", "drop", "clear"}]_vars

\* A pop read the last element from storage and left it there; an element
\* below it is Modified in the cache with a value storage does not hold yet.
C17_Witness ==
    /\ last.op = "pop" /\ last.err = NoErr /\ last.reads = 1
    /\ index_to_lookup_key(len) \in DOMAIN storage
    /\ \E k \in ModifiedKeys(cache) :
          /\ k < len
          /\ index_to_lookup_key(k) \in DOMAIN storage
          /\ Persisted(cache[k].value)
                 # storage_read(storage, index_to_lookup_key(k))

\* The optional value the instance holds for index i: the cached one, or
\* else the one in storage.
Held(c, st, i) == IF i \in DOMAIN c THEN c[i].value ELSE Stored(st, i)

\* C18: swap(a, b) with a # b, both below len, loads both entries (from
\* storage if not cached), exchanges their values and leaves both entries
\* Modified; swap(a, a) changes nothing; swap fails with the
\* inconsistent-state error when either loaded value is absent (an instance
\* whose length l does not match what the cache and storage hold).
C18_Swap ==
    Running =>
        /\ \A a \in 0..(len - 1) : swap(Cur, a, a) = Cur
        /\ \A a \in 0..(len - 1), b \in 0..(len - 1) :
              (a # b) =>
                  LET r == swap(Cur, a, b)
                  IN  /\ r.err = NoErr /\ r.len = len /\ r.storage = storage
                      /\ r.reads = Cardinality({a, b} \ DOMAIN cache)
                      /\ DOMAIN r.cache = DOMAIN cache \cup {a, b}
                      /\ r.cache[a] = [value |-> Held(cache, storage, b),
                                       state |-> Modified]
                      /\ r.cache[b] = [value |-> Held(cache, storage, a),
                                       state |-> Modified]
                      /\ is_some(r.cache[a].value) /\ is_some(r.cache[b].value)
                      /\ \A k \in DOMAIN cache \ {a, b} : r.cache[k] = cache[k]
        /\ \A l \in 2..U32_MAX, a \in Indices, b \in Indices :
              (a < l /\ b < l /\ a # b) =>
                  LET s == Begin(l, cache, storage)
                  IN  (is_none(Held(cache, storage, a))
                          \/ is_none(Held(cache, storage, b))) =>
                      /\ swap(s, a, b).err = ERR_INCONSISTENT_STATE
                      /\ swap(s, a, b).len = l
                      /\ swap(s, a, b).storage = storage

\* A swap loaded one of its two entries from storage and exchanged two
\* different values: both entries are Modified.
C18_Witness ==
    /\ last.op = "swap" /\ last.err = NoErr /\ last.reads = 1
    /\ \E a \in DOMAIN cache, b \in DOMAIN cache :
          /\ a < b /\ b < len
          /\ cache[a].state = Modified /\ cache[b].state = Modified
          /\ is_some(cache[a].value) /\ cache[a].value # cache[b].value
          /\ Persisted(cache[a].value)
                 = storage_read(storage, index_to_lookup_key(b))
          /\ Persisted(cache[b].value)
                 # storage_read(storage, index_to_lookup_key(b))

\* C19: get(index) with index below len: on a cache hit it returns the
\* cached value without reading storage; on a miss it reads storage exactly
\* once, at the index's key, and inserts what it found as a Cached entry.
\* get, at any index, never changes the length, the storage, or the value
\* or state of an entry the cache already had.
C19_GetFrame ==
    Running =>
        /\ \A index \in 0..(len - 1) :
              LET r == get(Cur, index)
              IN  IF index \in DOMAIN cache
                  THEN /\ r.reads = 0
                       /\ r.cache = cache
                       /\ r.ret = cache[index].value
                  ELSE /\ r.reads = 1
                       /\ DOMAIN r.cache = DOMAIN cache \cup {index}
                       /\ r.cache[index] = [value |-> Stored(storage, index),
                                            state |-> Cached]
                       /\ r.ret = Stored(storage, index)
        /\ \A index \in Indices :
              LET r == get(Cur, index)
              IN  /\ r.err = NoErr
                  /\ r.len = len
                  /\ r.storage = storage
                  /\ r.writes = 0 /\ r.removes = 0
                  /\ DOMAIN cache \subseteq DOMAIN r.cache
                  /\ \A k \in DOMAIN cache : r.cache[k] = cache[k]

\* A get missed the cache, read storage once and cached the value it found;
\* another entry is Modified and holds a value storage does not.
C19_Witness ==
    /\ last.op = "get" /\ last.err = NoErr /\ last.reads = 1 /\ len >= 2
    /\ \E k \in DOMAIN cache :
          /\ k < len /\ cache[k].state = Cached /\ is_some(cache[k].value)
    /\ \E k \in ModifiedKeys(cache) :
          /\ k < len
          /\ index_to_lookup_key(k) \in DOMAIN storage
          /\ Persisted(cache[k].value)
                 # storage_read(storage, index_to_lookup_key(k))
    /\ Cardinality(DOMAIN cache) = 2

\* C20: the collection refines a plain sequence. Run side by side with the
\* abstract sequence abs under set, push, pop, swap_remove, clear, get and
\* flush (extend, swap, drop and deserialize too), starting from
\* new(prefix) over empty storage: at every step len() is the length of abs
\* and get(i) returns element i of abs for every i below len(); right after
\* every flush storage holds, at the key of every i below len(), the
\* encoding of element i of abs.
C20_RefinesSequence ==
    /\ len = Len(abs)
    /\ Running =>
          \A i \in 0..(len - 1) :
              /\ get(Cur, i).err = NoErr
              /\ get(Cur, i).ret = Some(abs[i + 1])
    /\ (last.op \in {"flush", "drop"}) =>
          \A i \in 0..(len - 1) :
              storage_read(storage, index_to_lookup_key(i))
                  = Some(serialize_element(abs[i + 1]))

\* A flush wrote and removed entries and storage holds the abstract
\* sequence, two different elements among them.
C20_Witness ==
    /\ last.op = "flush" /\ last.err = NoErr
    /\ last.writes >= 1 /\ last.removes >= 1
    /\ Len(abs) = 2 /\ abs[1] # abs[2]
    /\ storage_read(storage, index_to_lookup_key(0))
           = Some(serialize_element(abs[1]))
    /\ storage_read(storage, index_to_lookup_key(1))
           = Some(serialize_element(abs[2]))

====
